---- MODULE Spec2Model ----
(***************************************************************************)
(* The Settings store of generalpy (src/src/generalpy/settings.py): an     *)
(* in-memory mapping kept in step with a JSON file, repaired against a     *)
(* set of defaults, with hard_fetch (EAGER) or without it (LAZY).          *)
(*                                                                         *)
(* The settings file is modelled by its content: absent, text that is not  *)
(* JSON, bytes that do not decode as text, or the text of a JSON object,   *)
(* held as the sequence of its <<key, value>> members in file order.       *)
(* json.dump(sort_keys=True) and json.load are the operators Dump and      *)
(* Parse between that text and the in-memory mapping (a function).         *)
(*                                                                         *)
(* Spec is one store, its callers and an external writer of the file.      *)
(* SpecUnserializable, SpecNonObject, SpecAlias and SpecIO add to it, each *)
(* one thing: values json.dump cannot encode, JSON that is no object, a    *)
(* caller changing the mapping get_all_settings returned, a filesystem     *)
(* that fails. SpecRace is two stores on one file with update_setting      *)
(* split into its load and its save, SpecTornSave the same with the save   *)
(* split into the open and the dump. SpecRetry is the wrapper made by      *)
(* retry_support (src/src/generalpy/decorator.py), SpecSignal a Signal     *)
(* (src/src/generalpy/signal.py) and SpecDb a DatabaseCollection           *)
(* (src/src/generalpy/database.py).                                        *)
(***************************************************************************)
EXTENDS Integers, Sequences, FiniteSets, TLC

\* Bounds of the model: keys are 1..NumKeys, stored values 1..NumVals.
NumKeys == 2
NumVals == 2

Keys == 1..NumKeys
Vals == 1..NumVals

\* get_setting's `default` when the caller passes none (settings.py:139).
None == 0

VARIABLES
    default_settings,   \* self.default_settings: mapping key -> value
    hard_fetch,         \* self.hard_fetch: TRUE is the EAGER policy
    constructed,        \* FALSE until __init__ has completed once
    settings,           \* self._settings: the in-memory mapping
    file,               \* content of the settings file
    last,               \* the latest event: operation, arguments, outcome
    instances,          \* two Settings objects on one file, step by step
    num,                \* retry_support: the `num` the decorator was given
    onFailure,          \* retry_support: TRUE when an onFailure was given
    retries,            \* wrapper_sync / wrapper_async: _retries
    calls,              \* invocations of the wrapped function in this call
    state,              \* where the call of the wrapper stands
    rv,                 \* what the wrapper returned
    handed,             \* the exceptions onFailure was called with
    reraised,           \* the exception that left the wrapper, 0 for none
    threaded,           \* Signal: self.__threaded
    callback,           \* Signal: self._callback, 0 for None
    cb_args,            \* Signal: self.cb_args
    cb_kwargs,          \* Signal: self.cb_kwargs
    returnedValue_from_cb,      \* Signal: self.__returnedValue_from_cb
    connected_function_ran,     \* Signal: self.__connected_function_ran
    invoked,            \* the calls of callbacks the latest operation made
    replaced,           \* the callback the latest connect took the place of
    collectionData,     \* DatabaseCollection: self.__collectionData
    trace               \* the changes and hook calls of the latest operation

\* The single store and its file, the event apart.
store_but_last == <<default_settings, hard_fetch, constructed, settings, file>>

\* The single store and its file.
store == <<default_settings, hard_fetch, constructed, settings, file, last>>

\* A function decorated with retry_support and the call of its wrapper.
retry_state == <<num, onFailure, retries, calls, state, rv, handed, reraised>>

\* A Signal object and what its operations did.
signal_state == <<threaded, callback, cb_args, cb_kwargs, returnedValue_from_cb,
                  connected_function_ran, invoked, replaced>>

\* A DatabaseCollection object and what its latest operation did.
db_state == <<collectionData, trace>>

\* What the operations of the single store leave alone: the pair of stores
\* of the interleaving model, the call of a retry_support wrapper, the
\* Signal and the DatabaseCollection.
beside == <<instances, retry_state, signal_state, db_state>>

vars == <<store, beside>>

----------------------------------------------------------------------------
(* Mappings and file contents *)

\* All dict[key, value] with keys among K: functions on a subset of K.
Mappings(K) == UNION {[D -> Vals] : D \in SUBSET K}

EmptyMap == <<>>

\* The keys of a mapping in ascending order (sort_keys=True).
SortedKeys(s) == SelectSeq([i \in 1..NumKeys |-> i], LAMBDA k : k \in DOMAIN s)

\* json.dump(settings, f, indent=4, sort_keys=True): the members of the
\* object, one per key, in ascending key order.
Dump(s) ==
    LET ks == SortedKeys(s)
    IN  [i \in 1..Len(ks) |-> <<ks[i], s[ks[i]]>>]

\* The keys of the members of an object's text.
MemberKeys(body) == {body[i][1] : i \in DOMAIN body}

\* json.load(f) on the text of a JSON object: a dict with one entry per
\* key, the last member of a repeated key winning.
Parse(body) ==
    [k \in MemberKeys(body) |->
        LET i == CHOOSE i \in DOMAIN body :
                    /\ body[i][1] = k
                    /\ \A j \in (i + 1)..Len(body) : body[j][1] # k
        IN  body[i][2]]

Absent  == [kind |-> "absent", body |-> <<>>]
BadText == [kind |-> "text",   body |-> <<>>]
BadBytes == [kind |-> "bytes", body |-> <<>>]
JsonFile(body) == [kind |-> "json", body |-> body]

\* JSON text whose top-level value is no object: an array, a number, null,
\* a boolean, or a string in which some default key does not occur.
NonObject == [kind |-> "nonobject", body |-> <<>>]

\* What json.load returns for such text: a Python value that is no dict.
\* It is told from every mapping of the store by its one key, None.
NotADict == [k \in {None} |-> None]

\* The contents an external writer can leave: no file, text that is not
\* JSON, bytes that are not text, or a JSON object. json.load reads an
\* object the same whatever the order of its members, so the objects are
\* written with their members in key order.
JsonBodies == {Dump(m) : m \in Mappings(Keys)}

FileContents == {Absent, BadText, BadBytes} \cup {JsonFile(b) : b \in JsonBodies}

----------------------------------------------------------------------------
(* The store *)

\* A save that stops short of the last member of the object.
SaveSettingsTruncated(s) ==
    LET d == Dump(s)
    IN  JsonFile(SubSeq(d, 1, Len(d) - 1))

\* Settings._save_settings: mkdir(parents, exist_ok), open(path, 'w') and
\* json.dump: the file is replaced by the dump of the mapping.
SaveSettings(s) == JsonFile(Dump(s))

\* A value json.dump cannot encode (an object(), a set): it raises TypeError.
Unserializable == NumVals + 1

Serializable(s) == \A k \in DOMAIN s : s[k] # Unserializable

\* What json.dump leaves in the file opened with 'w' when it meets a value
\* it cannot encode: the text it had written so far, that is the members
\* that sort before the offending one, which is not JSON.
PartialDump(s) ==
    LET d == Dump(s)
        bad == CHOOSE i \in DOMAIN d :
                   /\ d[i][2] = Unserializable
                   /\ \A j \in 1..(i - 1) : d[j][2] # Unserializable
    IN  [kind |-> "text", body |-> SubSeq(d, 1, bad - 1)]

\* Settings._save_settings on any mapping, the file holding f before: the
\* file it leaves and whether TypeError left json.dump.
TrySaveSettings(s, f) ==
    IF Serializable(s)
    THEN [raised |-> FALSE, file |-> SaveSettings(s)]
    ELSE [raised |-> TRUE, file |-> PartialDump(s)]

\* A back-fill that patches the mapping in memory and never saves it.
RECURSIVE BackFillNoSave(_, _, _)
BackFillNoSave(st, defaults, todo) ==
    IF todo = <<>> THEN st
    ELSE LET key == Head(todo)
             nxt == IF key \notin DOMAIN st.settings
                    THEN [settings |-> [k \in DOMAIN st.settings \cup {key} |->
                                           IF k = key THEN defaults[key]
                                           ELSE st.settings[k]],
                          file |-> st.file]
                    ELSE st
         IN  BackFillNoSave(nxt, defaults, Tail(todo))

\* A back-fill that sets every default key to its default, also the keys
\* the loaded mapping has.
RECURSIVE BackFillDefaultsWin(_, _, _)
BackFillDefaultsWin(st, defaults, todo) ==
    IF todo = <<>> THEN st
    ELSE LET key == Head(todo)
             patched == [k \in DOMAIN st.settings \cup {key} |->
                            IF k = key THEN defaults[key] ELSE st.settings[k]]
         IN  BackFillDefaultsWin(
                 [settings |-> patched,
                  file |-> IF key \notin DOMAIN st.settings
                           THEN JsonFile(Dump(patched)) ELSE st.file],
                 defaults, Tail(todo))

\* A back-fill that stops after the first default key it had to add.
RECURSIVE BackFillFirstOnly(_, _, _)
BackFillFirstOnly(st, defaults, todo) ==
    IF todo = <<>> THEN st
    ELSE LET key == Head(todo)
         IN  IF key \notin DOMAIN st.settings
             THEN LET patched == [k \in DOMAIN st.settings \cup {key} |->
                                     IF k = key THEN defaults[key]
                                     ELSE st.settings[k]]
                  IN  [settings |-> patched, file |-> JsonFile(Dump(patched))]
             ELSE BackFillFirstOnly(st, defaults, Tail(todo))

\* The loop of _load_settings over the default keys: a key missing from the
\* loaded mapping gets its default value and the mapping is saved at once.
\* st is [settings, file]; todo the default keys still to visit.
RECURSIVE BackFill(_, _, _)
BackFill(st, defaults, todo) ==
    IF todo = <<>> THEN st
    ELSE LET key == Head(todo)
             nxt == IF key \notin DOMAIN st.settings
                    THEN LET patched == [k \in DOMAIN st.settings \cup {key} |->
                                            IF k = key THEN defaults[key]
                                            ELSE st.settings[k]]
                         IN  [settings |-> patched, file |-> SaveSettings(patched)]
                    ELSE st
         IN  BackFill(nxt, defaults, Tail(todo))

\* A load that returns the parsed object as it is, missing defaults and all.
LoadSettingsNoBackFill(f, defaults) ==
    IF f.kind \in {"absent", "text"}
    THEN [raised |-> FALSE, settings |-> defaults, file |-> JsonFile(Dump(defaults))]
    ELSE IF f.kind = "bytes"
    THEN [raised |-> TRUE, settings |-> EmptyMap, file |-> f]
    ELSE [raised |-> FALSE, settings |-> Parse(f.body), file |-> f]

\* A load that returns the defaults for a missing file without creating it.
LoadSettingsNoCreate(f, defaults) ==
    IF f.kind = "absent"
    THEN [raised |-> FALSE, settings |-> defaults, file |-> f]
    ELSE IF f.kind = "text"
    THEN [raised |-> FALSE, settings |-> defaults, file |-> JsonFile(Dump(defaults))]
    ELSE IF f.kind = "bytes"
    THEN [raised |-> TRUE, settings |-> EmptyMap, file |-> f]
    ELSE LET st == BackFill([settings |-> Parse(f.body), file |-> f],
                            defaults, SortedKeys(defaults))
         IN  [raised |-> FALSE, settings |-> st.settings, file |-> st.file]

\* Settings._load_settings on file content f: the mapping returned, the
\* file left behind and whether an exception left the method.
\*  - no file: the defaults are saved and a copy of them returned;
\*  - json.load raises JSONDecodeError: the same;
\*  - the text-mode read cannot decode the bytes: UnicodeDecodeError is not
\*    a JSONDecodeError and leaves the method, nothing saved;
\*  - a JSON object: back-filled with the missing defaults;
\*  - JSON that is no object: the first default key makes `key not in
\*    settings` or `settings[key] = ...` raise TypeError, which is not
\*    caught; with no default key the loop does not run and the value is
\*    returned as it is.
LoadSettings(f, defaults) ==
    IF f.kind = "absent"
    THEN [raised |-> FALSE, settings |-> defaults, file |-> SaveSettings(defaults)]
    ELSE IF f.kind = "text"
    THEN [raised |-> FALSE, settings |-> defaults, file |-> SaveSettings(defaults)]
    ELSE IF f.kind = "bytes"
    THEN [raised |-> TRUE, settings |-> EmptyMap, file |-> f]
    ELSE IF f.kind = "nonobject"
    THEN IF defaults = EmptyMap
         THEN [raised |-> FALSE, settings |-> NotADict, file |-> f]
         ELSE [raised |-> TRUE, settings |-> EmptyMap, file |-> f]
    ELSE LET st == BackFill([settings |-> Parse(f.body), file |-> f],
                            defaults, SortedKeys(defaults))
         IN  [raised |-> FALSE, settings |-> st.settings, file |-> st.file]

\* The number of _save_settings calls _load_settings makes on content f:
\* one for a missing or corrupt file, one per default key missing from a
\* JSON object, none when the read raises.
LoadWrites(f, defaults) ==
    IF f.kind \in {"absent", "text"} THEN 1
    ELSE IF f.kind \in {"bytes", "nonobject"} THEN 0
    ELSE Cardinality(DOMAIN defaults \ MemberKeys(f.body))

\* The ways the filesystem can fail an operation: every stat, open for
\* reading or read raises OSError (permission denied, I/O error), or every
\* mkdir, open for writing or write does (read-only file, disk full).
Faults == {"read fails", "write fails"}

\* The file after a _save_settings that raised OSError: as it was when
\* mkdir or open raised, cut to partial text when the write raised after
\* open(path, 'w') had truncated it.
FailedSave(f) == {f, BadText}

\* Whether the fault hits _load_settings on content f: a read always does,
\* a write when the load has something to save.
LoadFails(f, defaults, fault) ==
    \/ fault = "read fails"
    \/ fault = "write fails" /\ LoadWrites(f, defaults) > 0

\* A load that takes the failure for a corrupt file: it answers with the
\* defaults and leaves them in the file.
FailedLoadTakenForCorrupt(f, defaults, fault) ==
    {[raised |-> FALSE, settings |-> defaults, file |-> JsonFile(Dump(defaults))]}

\* The outcomes of a _load_settings the fault hits: OSError is no
\* JSONDecodeError, so it leaves the method at the failing call; nothing
\* is returned and the first save, if it came to it, has failed.
FailedLoad(f, defaults, fault) ==
    {[raised |-> TRUE, settings |-> EmptyMap, file |-> g] :
        g \in IF fault = "read fails" THEN {f} ELSE FailedSave(f)}

\* A wrapper that reloads before every decorated method, hard_fetch or not.
ReloadSettingsAlways(hf, s, f, defaults) == LoadSettings(f, defaults)

\* A wrapper that never reloads, whatever hard_fetch says.
ReloadSettingsNever(hf, s, f, defaults) ==
    [raised |-> FALSE, settings |-> s, file |-> f]

\* The wrapper of Settings._reload_settings: with hard_fetch the mapping is
\* loaded again before the decorated method runs; without it the method
\* runs on the mapping in memory and the file is not touched.
ReloadSettings(hf, s, f, defaults) ==
    IF hf THEN LoadSettings(f, defaults)
    ELSE [raised |-> FALSE, settings |-> s, file |-> f]

\* A lookup that ignores the caller's default.
DictGetNoDefault(s, key, default) == IF key \in DOMAIN s THEN s[key] ELSE None

\* dict.get(key, default)
DictGet(s, key, default) == IF key \in DOMAIN s THEN s[key] ELSE default

\* An assignment that keeps the value of a key the mapping already has.
DictSetIfMissing(s, key, value) ==
    [k \in DOMAIN s \cup {key} |-> IF k \in DOMAIN s THEN s[k] ELSE value]

\* self._settings[key] = value
DictSet(s, key, value) ==
    [k \in DOMAIN s \cup {key} |-> IF k = key THEN value ELSE s[k]]

\* What an operation finds in the file when it starts: the kind of content,
\* "incomplete" for a JSON object that lacks a default key.
Found(f, defaults) ==
    IF f.kind = "json" /\ ~(DOMAIN defaults \subseteq MemberKeys(f.body))
    THEN "incomplete"
    ELSE f.kind

\* The record of the latest event: the operation, its arguments, what it
\* returned, whether it raised and what it found in the file.
Event(op, key, val, ret, raised, found) ==
    [op |-> op, key |-> key, val |-> val, ret |-> ret, raised |-> raised,
     found |-> found]

\* The default_settings a store can be given. The store never compares or
\* computes with values, it only copies them, so the default of every key is
\* written 1 and the other values stand for "not the default".
DefaultValue == 1

DefaultSettings == {[k \in D |-> DefaultValue] : D \in SUBSET Keys}

\* The two stores of the interleaving model.
Instances == {1, 2}

\* A store of the pair before its __init__: no mapping, no call under way.
Unbuilt ==
    [built |-> FALSE, hard_fetch |-> FALSE, settings |-> EmptyMap,
     pc |-> "idle", key |-> 0, value |-> 0]

\* No retry_support wrapper is decorated.
RetryIdle ==
    /\ num = 0
    /\ onFailure = FALSE
    /\ retries = 0
    /\ calls = 0
    /\ state = "idle"
    /\ rv = None
    /\ handed = <<>>
    /\ reraised = 0

\* self._callback when no callback is connected.
NoCallback == None

\* No Signal exists.
SignalIdle ==
    /\ threaded = FALSE
    /\ callback = NoCallback
    /\ cb_args = <<>>
    /\ cb_kwargs = EmptyMap
    /\ returnedValue_from_cb = None
    /\ connected_function_ran = FALSE
    /\ invoked = <<>>
    /\ replaced = NoCallback

\* No DatabaseCollection exists.
DbIdle ==
    /\ collectionData = EmptyMap
    /\ trace = <<>>

\* No store of the pair is built, no retry_support wrapper is decorated and
\* no Signal and no DatabaseCollection exist.
BesideIdle ==
    /\ instances = [i \in Instances |-> Unbuilt]
    /\ RetryIdle
    /\ SignalIdle
    /\ DbIdle

Init ==
    /\ default_settings \in DefaultSettings
    /\ hard_fetch = FALSE
    /\ constructed = FALSE
    /\ settings = EmptyMap
    /\ file \in FileContents
    /\ last = Event("none", 0, 0, None, FALSE, "")
    /\ BesideIdle

\* Settings.__init__(default_settings, hard_fetch=hf): a store instance is
\* built on the file. When the load raises no instance comes to exist.
Construct(hf) ==
    LET r == LoadSettings(file, default_settings)
        \* 1 when nothing happened since another store was built on the file
        again == IF last.op = "init" /\ ~last.raised THEN 1 ELSE 0
    IN  /\ last' = Event("init", 0, again, None, r.raised, Found(file, default_settings))
        /\ IF r.raised
           THEN UNCHANGED <<hard_fetch, constructed, settings, file>>
           ELSE /\ hard_fetch' = hf
                /\ constructed' = TRUE
                /\ settings' = r.settings
                /\ file' = r.file
        /\ UNCHANGED <<default_settings, beside>>

\* Settings.get_setting(key, default)
GetSetting(key, default) ==
    /\ constructed
    /\ LET r == ReloadSettings(hard_fetch, settings, file, default_settings)
       IN  IF r.raised
           THEN /\ last' = Event("get_setting", key, default, None, TRUE, Found(file, default_settings))
                /\ UNCHANGED <<settings, file>>
           ELSE /\ settings' = r.settings
                /\ file' = r.file
                /\ last' = IF r.settings = NotADict
                           THEN \* no .get on a list, a number, ...: AttributeError
                                Event("get_setting", key, default, None, TRUE,
                                      Found(file, default_settings))
                           ELSE Event("get_setting", key, default,
                                      DictGet(r.settings, key, default), FALSE,
                                      Found(file, default_settings))
    /\ UNCHANGED <<default_settings, hard_fetch, constructed, beside>>

\* Settings.get_all_settings()
GetAllSettings ==
    /\ constructed
    /\ LET r == ReloadSettings(hard_fetch, settings, file, default_settings)
       IN  IF r.raised
           THEN /\ last' = Event("get_all_settings", 0, 0, None, TRUE, Found(file, default_settings))
                /\ UNCHANGED <<settings, file>>
           ELSE /\ settings' = r.settings
                /\ file' = r.file
                /\ last' = Event("get_all_settings", 0, 0, r.settings, FALSE, Found(file, default_settings))
    /\ UNCHANGED <<default_settings, hard_fetch, constructed, beside>>

\* An update_setting that skips the reload of hard_fetch and saves the
\* mapping the store already held.
UpdateSettingNoReload(key, value) ==
    /\ constructed
    /\ settings' = DictSet(settings, key, value)
    /\ file' = SaveSettings(settings')
    /\ last' = Event("update_setting", key, value, None, FALSE, Found(file, default_settings))
    /\ UNCHANGED <<default_settings, hard_fetch, constructed, beside>>

\* An update_setting on a store whose loads and resets hand out the defaults
\* themselves instead of dict(self.default_settings): assigning the key in
\* a mapping that is the defaults assigns it in the defaults.
UpdateSettingOnSharedDefaults(key, value) ==
    /\ constructed
    /\ LET r == ReloadSettings(hard_fetch, settings, file, default_settings)
           updated == DictSet(r.settings, key, value)
       IN  /\ ~r.raised
           /\ settings' = updated
           /\ file' = SaveSettings(updated)
           /\ default_settings' = IF r.settings = default_settings
                                  THEN updated ELSE default_settings
           /\ last' = Event("update_setting", key, value, None, FALSE, Found(file, default_settings))
    /\ UNCHANGED <<hard_fetch, constructed, beside>>

\* Settings.update_setting(key, value)
UpdateSetting(key, value) ==
    /\ constructed
    /\ LET r == ReloadSettings(hard_fetch, settings, file, default_settings)
       IN  IF r.raised
           THEN /\ last' = Event("update_setting", key, value, None, TRUE, Found(file, default_settings))
                /\ UNCHANGED <<settings, file>>
           ELSE IF r.settings = NotADict
           THEN \* the item assignment raises TypeError, nothing is saved
                /\ settings' = r.settings
                /\ file' = r.file
                /\ last' = Event("update_setting", key, value, None, TRUE, Found(file, default_settings))
           ELSE LET updated == DictSet(r.settings, key, value)
                    w == TrySaveSettings(updated, r.file)
                IN  /\ settings' = updated
                    /\ file' = w.file
                    /\ last' = Event("update_setting", key, value, None, w.raised, Found(file, default_settings))
    /\ UNCHANGED <<default_settings, hard_fetch, constructed, beside>>

\* A reset that lays the defaults over the mapping in memory, keeping the
\* keys the defaults do not have.
ResetKeepingExtras ==
    /\ constructed
    /\ settings' = [k \in DOMAIN settings \cup DOMAIN default_settings |->
                       IF k \in DOMAIN default_settings THEN default_settings[k]
                       ELSE settings[k]]
    /\ file' = SaveSettings(settings')
    /\ last' = Event("reset", 0, 0, None, FALSE, Found(file, default_settings))
    /\ UNCHANGED <<default_settings, hard_fetch, constructed, beside>>

\* Settings.reset()
Reset ==
    /\ constructed
    /\ settings' = default_settings
    /\ file' = SaveSettings(default_settings)
    /\ last' = Event("reset", 0, 0, None, FALSE, Found(file, default_settings))
    /\ UNCHANGED <<default_settings, hard_fetch, constructed, beside>>

\* Another program replaces or deletes the settings file between two calls
\* of the store. What the file held before the first construction is Init's
\* choice. Of several writes in a row the store meets only the last, and a
\* getter without hard_fetch touches neither the mapping nor the file, so a
\* write after it leaves the store where the same write before it does: one
\* write after each operation that loaded or saved covers them all.
ExternalWrite(c) ==
    /\ constructed
    /\ last.op # "external"
    /\ (hard_fetch \/ last.op \notin {"get_setting", "get_all_settings"})
    /\ c # file
    /\ file' = c
    /\ last' = Event("external", 0, 0, None, FALSE, "")
    /\ UNCHANGED <<default_settings, hard_fetch, constructed, settings, beside>>

\* The caller of get_all_settings changes the mapping it was handed, making
\* it m. The method returns self._settings itself, not a copy, so what the
\* caller changes is the store's mapping. The event keeps the mapping as it
\* was before the change.
CallerMutates(m) ==
    /\ constructed
    /\ last.op = "get_all_settings" /\ ~last.raised
    /\ m # settings
    /\ settings' = m
    /\ last' = Event("caller_mutation", 0, 0, settings, FALSE, "")
    /\ UNCHANGED <<default_settings, hard_fetch, constructed, file, beside>>

\* Settings.__init__ while the filesystem fails.
ConstructFailing(hf, fault) ==
    /\ LoadFails(file, default_settings, fault)
    /\ \E r \in FailedLoad(file, default_settings, fault) :
           /\ last' = Event("init", 0, 0, None, r.raised, fault)
           /\ file' = r.file
           /\ IF r.raised
              THEN UNCHANGED <<hard_fetch, constructed, settings>>
              ELSE /\ hard_fetch' = hf
                   /\ constructed' = TRUE
                   /\ settings' = r.settings
    /\ UNCHANGED <<default_settings, beside>>

\* get_setting or get_all_settings while the filesystem fails: they use the
\* filesystem only for the reload of hard_fetch.
GetterFailing(op, fault) ==
    /\ constructed /\ hard_fetch
    /\ LoadFails(file, default_settings, fault)
    /\ \E r \in FailedLoad(file, default_settings, fault) :
           /\ file' = r.file
           /\ settings' = IF r.raised THEN settings ELSE r.settings
           /\ last' = Event(op, 0, 0, IF r.raised THEN None ELSE r.settings,
                            r.raised, fault)
    /\ UNCHANGED <<default_settings, hard_fetch, constructed, beside>>

\* update_setting while the filesystem fails: in the reload of hard_fetch,
\* or else in the save, after the key was assigned in memory.
UpdateSettingFailing(key, value, fault) ==
    /\ constructed
    /\ IF hard_fetch /\ LoadFails(file, default_settings, fault)
       THEN \E r \in FailedLoad(file, default_settings, fault) :
                IF r.raised
                THEN /\ file' = r.file
                     /\ settings' = settings
                     /\ last' = Event("update_setting", key, value, None, TRUE, fault)
                ELSE /\ settings' = DictSet(r.settings, key, value)
                     /\ file' = SaveSettings(settings')
                     /\ last' = Event("update_setting", key, value, None, FALSE, fault)
       ELSE LET r == ReloadSettings(hard_fetch, settings, file, default_settings)
            IN  /\ fault = "write fails"
                /\ ~r.raised /\ r.settings # NotADict
                /\ settings' = DictSet(r.settings, key, value)
                /\ file' \in FailedSave(r.file)
                /\ last' = Event("update_setting", key, value, None, TRUE, fault)
    /\ UNCHANGED <<default_settings, hard_fetch, constructed, beside>>

\* reset while the filesystem fails: the defaults are copied in memory,
\* then the save raises.
ResetFailing ==
    /\ constructed
    /\ settings' = default_settings
    /\ file' \in FailedSave(file)
    /\ last' = Event("reset", 0, 0, None, TRUE, "write fails")
    /\ UNCHANGED <<default_settings, hard_fetch, constructed, beside>>

\* The `default` a caller passes to get_setting: none, or a value. The value
\* is only handed back, so one value stands for all.
Fallbacks == {None, NumVals}

Next ==
    \/ \E hf \in BOOLEAN : Construct(hf)
    \/ \E k \in Keys, d \in Fallbacks : GetSetting(k, d)
    \/ GetAllSettings
    \/ \E k \in Keys, v \in Vals : UpdateSetting(k, v)
    \/ Reset
    \/ \E c \in FileContents : ExternalWrite(c)

Spec == Init /\ [][Next]_vars

\* The store with callers that also pass update_setting a value json.dump
\* cannot encode.
NextUnserializable ==
    \/ Next
    \/ \E k \in Keys : UpdateSetting(k, Unserializable)

SpecUnserializable == Init /\ [][NextUnserializable]_vars

----------------------------------------------------------------------------
(* Two stores on one file, update_setting in steps *)

\* The record of the latest step of the pair: which store took it.
StepEvent(op, i, key, value) ==
    [op |-> op, instance |-> i, key |-> key, val |-> value]

\* Settings.__init__ of store i of the pair, on the shared file.
InstanceConstruct(i, hf) ==
    /\ ~instances[i].built
    /\ LET r == LoadSettings(file, default_settings)
       IN  /\ ~r.raised
           /\ instances' = [instances EXCEPT ![i] =
                  [built |-> TRUE, hard_fetch |-> hf, settings |-> r.settings,
                   pc |-> "idle", key |-> 0, value |-> 0]]
           /\ file' = r.file
    /\ last' = StepEvent("init", i, 0, 0)
    /\ UNCHANGED <<default_settings, hard_fetch, constructed, settings,
                   retry_state, signal_state, db_state>>

\* update_setting(key, value) of store i up to its save: the reload of
\* hard_fetch, then self._settings[key] = value.
UpdateLoad(i, key, value) ==
    /\ instances[i].built /\ instances[i].pc = "idle"
    /\ LET me == instances[i]
           r == ReloadSettings(me.hard_fetch, me.settings, file, default_settings)
       IN  /\ ~r.raised
           /\ instances' = [instances EXCEPT ![i] =
                  [me EXCEPT !.settings = DictSet(r.settings, key, value),
                             !.pc = "save", !.key = key, !.value = value]]
           /\ file' = r.file
    /\ last' = StepEvent("update_load", i, key, value)
    /\ UNCHANGED <<default_settings, hard_fetch, constructed, settings,
                   retry_state, signal_state, db_state>>

\* A save that sets only the key of the call in the mapping it reads back
\* from the file.
UpdateSaveMerging(i) ==
    /\ instances[i].built /\ instances[i].pc = "save"
    /\ LET me == instances[i]
           onDisk == IF file.kind = "json" THEN Parse(file.body) ELSE me.settings
       IN  file' = SaveSettings(DictSet(onDisk, me.key, me.value))
    /\ instances' = [instances EXCEPT ![i].pc = "done"]
    /\ last' = StepEvent("update_save", i, instances[i].key, instances[i].value)
    /\ UNCHANGED <<default_settings, hard_fetch, constructed, settings,
                   retry_state, signal_state, db_state>>

\* The rest of update_setting of store i: self._save_settings(self._settings),
\* which opens the file and dumps the whole mapping of this store over it.
\* Nothing is locked or compared before.
UpdateSave(i) ==
    /\ instances[i].built /\ instances[i].pc = "save"
    /\ file' = SaveSettings(instances[i].settings)
    /\ instances' = [instances EXCEPT ![i].pc = "done"]
    /\ last' = StepEvent("update_save", i, instances[i].key, instances[i].value)
    /\ UNCHANGED <<default_settings, hard_fetch, constructed, settings,
                   retry_state, signal_state, db_state>>

\* Two stores are built where there is no file yet.
InitRace ==
    /\ default_settings \in DefaultSettings
    /\ hard_fetch = FALSE
    /\ constructed = FALSE
    /\ settings = EmptyMap
    /\ file = Absent
    /\ last = StepEvent("none", 0, 0, 0)
    /\ BesideIdle

\* Each store of the pair is built and calls update_setting once, the
\* steps of the two calls in any order.
NextRace ==
    \/ \E i \in Instances, hf \in BOOLEAN : InstanceConstruct(i, hf)
    \/ \E i \in Instances, k \in Keys, v \in Vals : UpdateLoad(i, k, v)
    \/ \E i \in Instances : UpdateSave(i)

SpecRace == InitRace /\ [][NextRace]_vars

\* The save of update_setting of store i, first half: open(path, 'w')
\* creates the file or cuts it to length zero.
UpdateOpen(i) ==
    /\ instances[i].built /\ instances[i].pc = "save"
    /\ file' = BadText
    /\ instances' = [instances EXCEPT ![i].pc = "open"]
    /\ last' = StepEvent("update_open", i, instances[i].key, instances[i].value)
    /\ UNCHANGED <<default_settings, hard_fetch, constructed, settings,
                   retry_state, signal_state, db_state>>

\* The save of update_setting of store i, second half: json.dump and the
\* close of the file write the text of the mapping from the start of the
\* file. Where another store has written the file since the open, what it
\* wrote beyond the length of this text stays behind it: the file holds
\* this text, or this text and a rest that make no JSON.
UpdateDump(i, overhang) ==
    /\ instances[i].built /\ instances[i].pc = "open"
    /\ overhang => file # BadText
    /\ file' = IF overhang THEN BadText ELSE SaveSettings(instances[i].settings)
    /\ instances' = [instances EXCEPT ![i].pc = "done"]
    /\ last' = StepEvent("update_dump", i, instances[i].key, instances[i].value)
    /\ UNCHANGED <<default_settings, hard_fetch, constructed, settings,
                   retry_state, signal_state, db_state>>

\* The pair of stores with the save of update_setting in its two halves;
\* a load that finds the file cut repairs it in one step.
NextTornSave ==
    \/ \E i \in Instances, hf \in BOOLEAN : InstanceConstruct(i, hf)
    \/ \E i \in Instances, k \in Keys, v \in Vals : UpdateLoad(i, k, v)
    \/ \E i \in Instances : UpdateOpen(i)
    \/ \E i \in Instances, overhang \in BOOLEAN : UpdateDump(i, overhang)

SpecTornSave == InitRace /\ [][NextTornSave]_vars

----------------------------------------------------------------------------

(* retry_support (src/src/generalpy/decorator.py) *)

\* The largest `num` a decorator of the model is given.
MaxNum == 4

\* How one invocation of the decorated function can end: it returns a
\* value, raises an Exception that is retried, raises an Exception of a
\* class listed in `ignore`, or raises a BaseException that `except
\* Exception` does not catch (KeyboardInterrupt, SystemExit).
Outcomes ==
    {[kind |-> "returns", value |-> v] : v \in Vals}
        \cup {[kind |-> k, value |-> None] : k \in {"fails", "ignored", "base"}}

\* No store exists: the variables of the Settings model at rest.
StoreIdle ==
    /\ default_settings = EmptyMap
    /\ hard_fetch = FALSE
    /\ constructed = FALSE
    /\ settings = EmptyMap
    /\ file = Absent

\* A function decorated with retry_support(num, onFailure=...), not called
\* yet.
InitRetry ==
    /\ StoreIdle
    /\ last = [op |-> "none", outcome |-> "", value |-> None]
    /\ instances = [i \in Instances |-> Unbuilt]
    /\ num \in 0..MaxNum
    /\ onFailure \in BOOLEAN
    /\ retries = 0
    /\ calls = 0
    /\ state = "idle"
    /\ rv = None
    /\ handed = <<>>
    /\ reraised = 0
    /\ SignalIdle
    /\ DbIdle

\* The wrapper is called: _retries = 0 and the loop is entered.
Call ==
    /\ state # "running"
    /\ state' = "running"
    /\ retries' = 0
    /\ calls' = 0
    /\ rv' = None
    /\ handed' = <<>>
    /\ reraised' = 0
    /\ last' = [op |-> "call", outcome |-> "", value |-> None]
    /\ UNCHANGED <<store_but_last, instances, num, onFailure, signal_state,
                   db_state>>

\* A loop that gives up only when _retries has passed num.
InvokeOnceTooMany(o) ==
    /\ state = "running"
    /\ calls' = calls + 1
    /\ last' = [op |-> "invoke", outcome |-> o.kind, value |-> o.value]
    /\ rv' = IF o.kind = "returns" THEN o.value ELSE None
    /\ IF o.kind = "returns"
       THEN /\ state' = "returned" /\ retries' = retries
            /\ UNCHANGED <<handed, reraised>>
       ELSE IF o.kind \in {"ignored", "base"}
       THEN /\ state' = "raised" /\ retries' = retries
            /\ reraised' = calls + 1 /\ UNCHANGED handed
       ELSE IF retries > num
       THEN /\ retries' = retries
            /\ IF onFailure
               THEN /\ state' = "returned"
                    /\ handed' = Append(handed, calls + 1)
                    /\ UNCHANGED reraised
               ELSE /\ state' = "raised"
                    /\ reraised' = calls + 1
                    /\ UNCHANGED handed
       ELSE /\ state' = "running" /\ retries' = retries + 1
            /\ UNCHANGED <<handed, reraised>>
    /\ UNCHANGED <<store_but_last, instances, num, onFailure, signal_state,
                   db_state>>

\* A wrapper that tells onFailure of every failure, not of the last only.
InvokeOnFailureEachTime(o) ==
    /\ state = "running"
    /\ calls' = calls + 1
    /\ last' = [op |-> "invoke", outcome |-> o.kind, value |-> o.value]
    /\ rv' = IF o.kind = "returns" THEN o.value ELSE None
    /\ IF o.kind = "returns"
       THEN /\ state' = "returned" /\ retries' = retries
            /\ UNCHANGED <<handed, reraised>>
       ELSE IF o.kind \in {"ignored", "base"}
       THEN /\ state' = "raised" /\ retries' = retries
            /\ reraised' = calls + 1 /\ UNCHANGED handed
       ELSE /\ handed' = IF onFailure THEN Append(handed, calls + 1)
                         ELSE handed
            /\ IF retries >= num
               THEN /\ retries' = retries
                    /\ IF onFailure
                       THEN state' = "returned" /\ UNCHANGED reraised
                       ELSE state' = "raised" /\ reraised' = calls + 1
               ELSE /\ state' = "running" /\ retries' = retries + 1
                    /\ UNCHANGED reraised
    /\ UNCHANGED <<store_but_last, instances, num, onFailure, signal_state,
                   db_state>>

\* One turn of the `while True` loop of wrapper_sync (wrapper_async is the
\* same with awaits): the function is invoked and ends as o.
\*  - it returns: the else branch returns rv;
\*  - it raises a BaseException: not caught, it leaves the wrapper;
\*  - it raises an ignored Exception: re-raised;
\*  - it raises another Exception: with _retries >= num the limit is
\*    reached, _retry_on_failure re-raises when there is no onFailure,
\*    otherwise onFailure(e) runs and the wrapper returns None; below the
\*    limit the wrapper sleeps, adds one to _retries and loops.
\* The exception an invocation raises is a new object each time: it is
\* named by the number of the invocation that raised it.
Invoke(o) ==
    /\ state = "running"
    /\ calls' = calls + 1
    /\ last' = [op |-> "invoke", outcome |-> o.kind, value |-> o.value]
    /\ rv' = IF o.kind = "returns" THEN o.value ELSE None
    /\ IF o.kind = "returns"
       THEN /\ state' = "returned" /\ retries' = retries
            /\ UNCHANGED <<handed, reraised>>
       ELSE IF o.kind \in {"ignored", "base"}
       THEN /\ state' = "raised" /\ retries' = retries
            /\ reraised' = calls + 1 /\ UNCHANGED handed
       ELSE IF retries >= num
       THEN /\ retries' = retries
            /\ IF onFailure
               THEN /\ state' = "returned"
                    /\ handed' = Append(handed, calls + 1)
                    /\ UNCHANGED reraised
               ELSE /\ state' = "raised"
                    /\ reraised' = calls + 1
                    /\ UNCHANGED handed
       ELSE /\ state' = "running" /\ retries' = retries + 1
            /\ UNCHANGED <<handed, reraised>>
    /\ UNCHANGED <<store_but_last, instances, num, onFailure, signal_state,
                   db_state>>

NextRetry ==
    \/ Call
    \/ \E o \in Outcomes : Invoke(o)

SpecRetry == InitRetry /\ [][NextRetry]_vars

----------------------------------------------------------------------------

(* Signal (src/src/generalpy/signal.py) *)

\* The functions that are connected: f and g.
Callbacks == {1, 2}

\* The positional and keyword arguments connect is given for the callback,
\* and those emit and emit_async are given: a keyword of connect's is given
\* again with another value, and a keyword connect did not give is given.
ConnectArgs == {<<>>, <<1>>}
ConnectKwargs == {EmptyMap, [k \in {1} |-> 1]}
EmitArgs == {<<>>, <<2>>}
EmitKwargs == {EmptyMap, [k \in {1} |-> 2], [k \in {2} |-> 2]}

\* How a call of the callback ends: it returns a value or it raises.
CallbackOutcomes ==
    {[kind |-> "returns", value |-> v] : v \in Vals}
        \cup {[kind |-> "raises", value |-> None]}

\* {**a, **b}: the keywords of both, b's value where both have one.
MergeKwargs(a, b) ==
    [k \in DOMAIN a \cup DOMAIN b |-> IF k \in DOMAIN b THEN b[k] ELSE a[k]]

\* One call of a callback: which function, with which arguments, and
\* whether in a thread of its own.
Invocation(cb, args, kwargs, thread) ==
    [cb |-> cb, args |-> args, kwargs |-> kwargs, thread |-> thread]

\* The record of the latest operation on the Signal.
SignalEvent(op, cb, args, kwargs, value, raised) ==
    [op |-> op, cb |-> cb, args |-> args, kwargs |-> kwargs,
     value |-> value, raised |-> raised]

\* Signal(threaded=...) has been constructed: __init__ ends with
\* disconnect().
InitSignal ==
    /\ StoreIdle
    /\ instances = [i \in Instances |-> Unbuilt]
    /\ RetryIdle
    /\ DbIdle
    /\ threaded \in BOOLEAN
    /\ callback = NoCallback
    /\ cb_args = <<>>
    /\ cb_kwargs = EmptyMap
    /\ returnedValue_from_cb = None
    /\ connected_function_ran = FALSE
    /\ invoked = <<>>
    /\ replaced = NoCallback
    /\ last = SignalEvent("none", NoCallback, <<>>, EmptyMap, None, FALSE)

\* A connect that keeps the callback already connected.
ConnectKeepingOlder(cb, d, args, kwargs) ==
    /\ callback' = IF callback = NoCallback THEN cb ELSE callback
    /\ cb_args' = args
    /\ cb_kwargs' = kwargs
    /\ returnedValue_from_cb' = d
    /\ connected_function_ran' = FALSE
    /\ invoked' = <<>>
    /\ replaced' = callback
    /\ last' = SignalEvent("connect", cb, args, kwargs, d, FALSE)
    /\ UNCHANGED <<store_but_last, instances, retry_state, db_state, threaded>>

\* connect(cb, d, *args, **kwargs)
Connect(cb, d, args, kwargs) ==
    /\ callback' = cb
    /\ cb_args' = args
    /\ cb_kwargs' = kwargs
    /\ returnedValue_from_cb' = d
    /\ connected_function_ran' = FALSE
    /\ invoked' = <<>>
    /\ replaced' = callback
    /\ last' = SignalEvent("connect", cb, args, kwargs, d, FALSE)
    /\ UNCHANGED <<store_but_last, instances, retry_state, db_state, threaded>>

\* disconnect()
Disconnect ==
    /\ callback' = NoCallback
    /\ cb_args' = <<>>
    /\ cb_kwargs' = EmptyMap
    /\ invoked' = <<>>
    /\ replaced' = NoCallback
    /\ last' = SignalEvent("disconnect", NoCallback, <<>>, EmptyMap, None, FALSE)
    /\ UNCHANGED <<store_but_last, instances, retry_state, db_state, threaded,
                   returnedValue_from_cb, connected_function_ran>>

\* An emit that keeps what the callback returned in its thread.
EmitStoringFromThread(args, kwargs, o) ==
    LET _args == cb_args \o args
        _kwargs == MergeKwargs(cb_kwargs, kwargs)
    IN  /\ IF callback = NoCallback
           THEN /\ invoked' = <<>>
                /\ last' = SignalEvent("emit", NoCallback, args, kwargs, None,
                                       FALSE)
                /\ UNCHANGED <<returnedValue_from_cb, connected_function_ran>>
           ELSE /\ invoked' = <<Invocation(callback, _args, _kwargs, threaded)>>
                /\ connected_function_ran' = (threaded \/ o.kind = "returns")
                /\ returnedValue_from_cb' =
                       IF o.kind = "returns" THEN o.value
                       ELSE returnedValue_from_cb
                /\ last' = SignalEvent("emit", callback, args, kwargs, o.value,
                                       ~threaded /\ o.kind = "raises")
        /\ UNCHANGED <<store_but_last, instances, retry_state, db_state, threaded,
                       callback, cb_args, cb_kwargs, replaced>>

\* emit(*args, **kwargs), the callback a function that ends as o.
\*  - no callback: nothing is called;
\*  - threaded: run_threaded starts a thread that calls the callback; what
\*    the callback returns or raises stays in the thread, and the flag is
\*    set as soon as the thread is started;
\*  - otherwise the callback is called; its value is kept and the flag set
\*    when it returns, and its exception leaves emit with the flag down.
Emit(args, kwargs, o) ==
    LET _args == cb_args \o args
        _kwargs == MergeKwargs(cb_kwargs, kwargs)
    IN  /\ IF callback = NoCallback
           THEN /\ invoked' = <<>>
                /\ last' = SignalEvent("emit", NoCallback, args, kwargs, None,
                                       FALSE)
                /\ UNCHANGED <<returnedValue_from_cb, connected_function_ran>>
           ELSE IF threaded
           THEN /\ invoked' = <<Invocation(callback, _args, _kwargs, TRUE)>>
                /\ connected_function_ran' = TRUE
                /\ last' = SignalEvent("emit", callback, args, kwargs, o.value,
                                       FALSE)
                /\ UNCHANGED returnedValue_from_cb
           ELSE /\ invoked' = <<Invocation(callback, _args, _kwargs, FALSE)>>
                /\ connected_function_ran' = (o.kind = "returns")
                /\ returnedValue_from_cb' =
                       IF o.kind = "returns" THEN o.value
                       ELSE returnedValue_from_cb
                /\ last' = SignalEvent("emit", callback, args, kwargs, o.value,
                                       o.kind = "raises")
        /\ UNCHANGED <<store_but_last, instances, retry_state, db_state, threaded,
                       callback, cb_args, cb_kwargs, replaced>>

\* await emit_async(*args, **kwargs), the callback a coroutine function
\* that ends as o: _args and _kwargs are computed, and the callback is
\* awaited with args and kwargs.
EmitAsync(args, kwargs, o) ==
    LET _args == cb_args \o args
        _kwargs == MergeKwargs(cb_kwargs, kwargs)
    IN  /\ IF callback = NoCallback
           THEN /\ invoked' = <<>>
                /\ last' = SignalEvent("emit_async", NoCallback, args, kwargs,
                                       None, FALSE)
                /\ UNCHANGED <<returnedValue_from_cb, connected_function_ran>>
           ELSE /\ invoked' = <<Invocation(callback, args, kwargs, FALSE)>>
                /\ connected_function_ran' = (o.kind = "returns")
                /\ returnedValue_from_cb' =
                       IF o.kind = "returns" THEN o.value
                       ELSE returnedValue_from_cb
                /\ last' = SignalEvent("emit_async", callback, args, kwargs,
                                       o.value, o.kind = "raises")
        /\ UNCHANGED <<store_but_last, instances, retry_state, db_state, threaded,
                       callback, cb_args, cb_kwargs, replaced>>

\* get_returned_value(returnAfterComplete) and get_returned_value_async:
\* with returnAfterComplete the call sleeps until the flag is set.
GetReturnedValue(returnAfterComplete) ==
    /\ returnAfterComplete => connected_function_ran
    /\ invoked' = <<>>
    /\ last' = SignalEvent("get_returned_value", callback, <<>>, EmptyMap,
                           returnedValue_from_cb, FALSE)
    /\ UNCHANGED <<store_but_last, instances, retry_state, db_state, threaded, callback,
                   cb_args, cb_kwargs, returnedValue_from_cb,
                   connected_function_ran, replaced>>

NextSignal ==
    \/ \E cb \in Callbacks, d \in {None} \cup Vals, args \in ConnectArgs,
          kwargs \in ConnectKwargs : Connect(cb, d, args, kwargs)
    \/ Disconnect
    \/ \E args \in EmitArgs, kwargs \in EmitKwargs, o \in CallbackOutcomes :
          Emit(args, kwargs, o)
    \/ \E args \in EmitArgs, kwargs \in EmitKwargs, o \in CallbackOutcomes :
          EmitAsync(args, kwargs, o)
    \/ \E returnAfterComplete \in BOOLEAN :
          GetReturnedValue(returnAfterComplete)

SpecSignal == InitSignal /\ [][NextSignal]_vars

----------------------------------------------------------------------------

(* DatabaseCollection (src/src/generalpy/database.py) *)

\* The dataIDs and the dataTypes of the collection.
DataIDs == {1, 2}
DataTypes == {1, 2}

\* The data of a dataID: dataType -> dataValue.
IdData == UNION {[D -> Vals] : D \in SUBSET DataTypes}

\* {dataID: {dataType: dataValue, ...}, ...}
Collections == UNION {[D -> IdData] : D \in SUBSET DataIDs}

\* The dataTypes one call of delete_data_of_dataType is given.
DataTypeLists == {<<>>, <<1>>, <<2>>, <<1, 2>>}

\* d.pop(key)
DictPop(d, key) == [k \in DOMAIN d \ {key} |-> d[k]]

\* A change of the collection and a call of a hook, as the trace keeps
\* them.
Change(name, dataID) == [kind |-> "change", name |-> name, dataID |-> dataID]
Hook(name, dataID) == [kind |-> "hook", name |-> name, dataID |-> dataID]

\* An operation under way: the collection and the trace so far.
Run(c, t) == [c |-> c, t |-> t]

\* get_data_of_dataID(dataID) with the default default: the dict the
\* collection holds for dataID, or a new empty dict.
get_data_of_dataID(c, dataID) ==
    IF dataID \in DOMAIN c THEN c[dataID] ELSE EmptyMap

\* update_data_of_dataID(dataID, dataValue)
update_data_of_dataID(r, dataID, dataValue) ==
    Run(DictSet(r.c, dataID, dataValue),
        r.t \o <<Change("_update_collectionData", dataID),
                 Hook("_update_dataID_fctn", dataID)>>)

\* delete_data_of_dataID(dataID)
delete_data_of_dataID(r, dataID) ==
    IF dataID \in DOMAIN r.c
    THEN Run(DictPop(r.c, dataID),
             r.t \o <<Change("_pop_from_collectionData", dataID),
                      Hook("_delete_dataID_fctn", dataID)>>)
    ELSE r

\* update_data_of_dataType(dataID, dataType, dataValue): idData is the dict
\* the collection holds, so idData.update changes the collection, unless
\* the dataID is new and idData a dict of its own.
update_data_of_dataType(r, dataID, dataType, dataValue) ==
    LET idData == DictSet(get_data_of_dataID(r.c, dataID), dataType, dataValue)
        held == dataID \in DOMAIN r.c
        updated ==
            Run(IF held THEN DictSet(r.c, dataID, idData) ELSE r.c,
                r.t \o (IF held THEN <<Change("idData.update", dataID)>>
                        ELSE <<>>)
                    \o <<Hook("_update_dataType_fctn", dataID)>>)
    IN  update_data_of_dataID(updated, dataID, idData)

\* The loop of delete_data_of_dataType over the dataTypes, idData being the
\* dict the collection holds for dataID.
RECURSIVE PopDataTypes(_, _, _)
PopDataTypes(r, dataID, dataTypes) ==
    IF dataTypes = <<>> THEN r
    ELSE IF Head(dataTypes) \in DOMAIN r.c[dataID]
    THEN PopDataTypes(
             Run(DictSet(r.c, dataID, DictPop(r.c[dataID], Head(dataTypes))),
                 r.t \o <<Change("idData.pop", dataID),
                          Hook("_delete_dataType_fctn", dataID)>>),
             dataID, Tail(dataTypes))
    ELSE PopDataTypes(r, dataID, Tail(dataTypes))

\* delete_data_of_dataType(dataID, *dataTypes): for a dataID the collection
\* does not hold idData is a new empty dict and the loop finds nothing in
\* it.
delete_data_of_dataType(r, dataID, dataTypes) ==
    LET popped == IF dataID \in DOMAIN r.c
                  THEN PopDataTypes(r, dataID, dataTypes)
                  ELSE r
    IN  update_data_of_dataID(popped, dataID,
                              get_data_of_dataID(popped.c, dataID))

\* copy_data_of_dataID(oldDataID, newDataID, deleteOldID)
copy_data_of_dataID(r, oldDataID, newDataID, deleteOldID) ==
    LET idData == get_data_of_dataID(r.c, oldDataID)
        copied == update_data_of_dataID(r, newDataID, idData)
    IN  IF deleteOldID THEN delete_data_of_dataID(copied, oldDataID)
        ELSE copied

\* The record of the latest operation on the collection.
DbEvent(op, dataID, arg, dataValue) ==
    [op |-> op, dataID |-> dataID, arg |-> arg, dataValue |-> dataValue]

\* DatabaseCollection(collectionName, initialData) has been constructed,
\* with hooks that only take note of their call.
InitDb ==
    /\ StoreIdle
    /\ instances = [i \in Instances |-> Unbuilt]
    /\ RetryIdle
    /\ SignalIdle
    /\ collectionData \in Collections
    /\ trace = <<>>
    /\ last = DbEvent("none", None, None, None)

\* Each operation starts from the collection as it is, with an empty
\* trace, and leaves the collection and the trace of its run.
UpdateDataOfDataID(dataID, dataValue) ==
    LET r == update_data_of_dataID(Run(collectionData, <<>>), dataID,
                                   dataValue)
    IN  /\ collectionData' = r.c
        /\ trace' = r.t
        /\ last' = DbEvent("update_data_of_dataID", dataID, None, dataValue)
        /\ UNCHANGED <<store_but_last, instances, retry_state, signal_state>>

DeleteDataOfDataID(dataID) ==
    LET r == delete_data_of_dataID(Run(collectionData, <<>>), dataID)
    IN  /\ collectionData' = r.c
        /\ trace' = r.t
        /\ last' = DbEvent("delete_data_of_dataID", dataID, None, None)
        /\ UNCHANGED <<store_but_last, instances, retry_state, signal_state>>

UpdateDataOfDataType(dataID, dataType, dataValue) ==
    LET r == update_data_of_dataType(Run(collectionData, <<>>), dataID,
                                     dataType, dataValue)
    IN  /\ collectionData' = r.c
        /\ trace' = r.t
        /\ last' = DbEvent("update_data_of_dataType", dataID, dataType,
                           dataValue)
        /\ UNCHANGED <<store_but_last, instances, retry_state, signal_state>>

DeleteDataOfDataType(dataID, dataTypes) ==
    LET r == delete_data_of_dataType(Run(collectionData, <<>>), dataID,
                                     dataTypes)
    IN  /\ collectionData' = r.c
        /\ trace' = r.t
        /\ last' = DbEvent("delete_data_of_dataType", dataID, dataTypes, None)
        /\ UNCHANGED <<store_but_last, instances, retry_state, signal_state>>

CopyDataOfDataID(oldDataID, newDataID, deleteOldID) ==
    LET r == copy_data_of_dataID(Run(collectionData, <<>>), oldDataID,
                                 newDataID, deleteOldID)
    IN  /\ collectionData' = r.c
        /\ trace' = r.t
        /\ last' = DbEvent("copy_data_of_dataID", oldDataID, newDataID,
                           deleteOldID)
        /\ UNCHANGED <<store_but_last, instances, retry_state, signal_state>>

NextDb ==
    \/ \E dataID \in DataIDs, dataValue \in IdData :
          UpdateDataOfDataID(dataID, dataValue)
    \/ \E dataID \in DataIDs : DeleteDataOfDataID(dataID)
    \/ \E dataID \in DataIDs, dataType \in DataTypes, dataValue \in Vals :
          UpdateDataOfDataType(dataID, dataType, dataValue)
    \/ \E dataID \in DataIDs, dataTypes \in DataTypeLists :
          DeleteDataOfDataType(dataID, dataTypes)
    \/ \E oldDataID \in DataIDs, newDataID \in DataIDs,
          deleteOldID \in BOOLEAN :
          CopyDataOfDataID(oldDataID, newDataID, deleteOldID)

SpecDb == InitDb /\ [][NextDb]_vars

----------------------------------------------------------------------------

\* The store with callers that add, change or remove keys in the mapping
\* get_all_settings returned.
NextAlias ==
    \/ Next
    \/ \E m \in Mappings(Keys) : CallerMutates(m)

SpecAlias == Init /\ [][NextAlias]_vars

\* The store on a filesystem that can fail any operation.
NextIO ==
    \/ \E hf \in BOOLEAN : Construct(hf)
    \/ \E k \in Keys, d \in Fallbacks : GetSetting(k, d)
    \/ GetAllSettings
    \/ \E k \in Keys, v \in Vals : UpdateSetting(k, v)
    \/ Reset
    \/ \E hf \in BOOLEAN, fault \in Faults : ConstructFailing(hf, fault)
    \/ \E op \in {"get_setting", "get_all_settings"}, fault \in Faults :
           GetterFailing(op, fault)
    \/ \E k \in Keys, v \in Vals, fault \in Faults : UpdateSettingFailing(k, v, fault)
    \/ ResetFailing

SpecIO == Init /\ [][NextIO]_vars

\* The store with a file that may also be left holding JSON that is no
\* object.
NextNonObject ==
    \/ Next
    \/ ExternalWrite(NonObject)

SpecNonObject == Init /\ [][NextNonObject]_vars

----------------------------------------------------------------------------
(* Properties *)

StoreOps == {"init", "get_setting", "get_all_settings", "update_setting", "reset"}
Getters  == {"get_setting", "get_all_settings"}

\* C1: once a store is constructed, and after every later get_setting,
\* get_all_settings, update_setting or reset under either policy and with
\* any external overwrite in between, every key of the defaults is a key of
\* the in-memory mapping.
C1_DefaultKeysInMemory ==
    constructed => DOMAIN default_settings \subseteq DOMAIN settings

\* A store whose last load met a JSON object lacking a default key, with a
\* non-empty set of defaults.
C1_Witness ==
    /\ constructed
    /\ last.op \in StoreOps /\ ~last.raised
    /\ last.found = "incomplete"
    /\ settings # default_settings

\* C2 as stated: after any completed store operation, a file that parses
\* as a JSON object holds every default key, under both policies and
\* whatever was written to the file before that operation.
C2_FileCompleteAfterAnyOp ==
    (constructed /\ last.op \in StoreOps /\ ~last.raised /\ file.kind = "json")
        => DOMAIN default_settings \subseteq DOMAIN Parse(file.body)

\* C2 amended: the file holds every default key after each completed
\* operation that loads or saves it: construction, update_setting and reset
\* under either policy, get_setting and get_all_settings under hard_fetch.
C2_FileCompleteAfterLoadOrSave ==
    (/\ constructed
     /\ last.op \in StoreOps /\ ~last.raised
     /\ (hard_fetch \/ last.op \notin Getters)
     /\ file.kind = "json")
        => DOMAIN default_settings \subseteq DOMAIN Parse(file.body)

\* A getter under hard_fetch has met an incomplete file and left a JSON file.
C2_Witness ==
    /\ constructed /\ hard_fetch
    /\ last.op \in Getters /\ ~last.raised
    /\ last.found = "incomplete"
    /\ file.kind = "json"

\* C3: after construction and after every completed update_setting or
\* reset, the mapping stored in the file is the in-memory mapping, and the
\* two mutations leave the file as one full dump of that mapping.
C3_FileEqualsMemory ==
    (constructed /\ last.op \in {"init", "update_setting", "reset"} /\ ~last.raised)
        => /\ file.kind = "json"
           /\ Parse(file.body) = settings
           /\ last.op # "init" =>
                /\ Len(file.body) = Cardinality(DOMAIN settings)
                /\ \A i \in DOMAIN file.body :
                       /\ file.body[i][2] = settings[file.body[i][1]]
                       /\ \A j \in DOMAIN file.body :
                              i < j => file.body[i][1] < file.body[j][1]

\* An update_setting under the LAZY policy that added a key the defaults do
\* not have, to a store that holds a value other than its default.
C3_Witness ==
    /\ constructed /\ ~hard_fetch
    /\ last.op = "update_setting" /\ ~last.raised
    /\ last.key \notin DOMAIN default_settings
    /\ \E k \in DOMAIN default_settings : settings[k] # default_settings[k]

\* C4: construction on a missing file creates the file holding exactly the
\* defaults and the in-memory mapping is the defaults; an immediate
\* get_all_settings returns the defaults, under either policy.
C4_FreshFileRoundTrip ==
    /\ [](last.op = "init" /\ last.found = "absent"
            => /\ ~last.raised
               /\ constructed
               /\ settings = default_settings
               /\ file.kind = "json"
               /\ Parse(file.body) = default_settings)
    /\ [][(last.op = "init" /\ last.found = "absent"
            /\ last'.op = "get_all_settings")
            => (~last'.raised /\ last'.ret = default_settings)]_vars

\* A store with hard_fetch and at least one default has been constructed
\* where there was no file.
C4_Witness ==
    /\ last.op = "init" /\ last.found = "absent"
    /\ hard_fetch
    /\ default_settings # EmptyMap
    /\ settings = default_settings

\* C5 as stated: a load that meets content that is not parseable as JSON
\* raises nothing, leaves the file holding exactly the defaults and the
\* in-memory mapping equal to the defaults (update_setting then sets its
\* key on top of them).
C5_CorruptFileHealed ==
    (last.op \in StoreOps \ {"reset"} /\ last.found \in {"text", "bytes"}
        /\ (last.op = "init" \/ hard_fetch))
        => /\ ~last.raised
           /\ file.kind = "json"
           /\ Parse(file.body) = settings
           /\ \A k \in DOMAIN settings :
                 IF last.op = "update_setting" /\ k = last.key
                 THEN settings[k] = last.val
                 ELSE k \in DOMAIN default_settings /\ settings[k] = default_settings[k]
           /\ DOMAIN default_settings \subseteq DOMAIN settings

\* C6: a load that meets a JSON object F yields F's value for every key of
\* F and the default for every default key missing from F, and nothing
\* else; when a default key was missing the file is rewritten to hold that
\* mapping.
C6_LoadMergesFileOverDefaults ==
    [][(/\ file.kind = "json"
        /\ \/ last'.op = "init"
           \/ (constructed /\ hard_fetch /\ last'.op \in Getters))
        => LET F == Parse(file.body)
               D == default_settings
           IN  /\ ~last'.raised
               /\ DOMAIN settings' = DOMAIN F \cup DOMAIN D
               /\ \A k \in DOMAIN F : settings'[k] = F[k]
               /\ \A k \in DOMAIN D \ DOMAIN F : settings'[k] = D[k]
               /\ ~(DOMAIN D \subseteq DOMAIN F)
                    => (file'.kind = "json" /\ Parse(file'.body) = settings')]_vars

\* A construction that met an object lacking a default key and holding a
\* key the defaults do not have.
C6_Witness ==
    /\ last.op = "init" /\ ~last.raised
    /\ last.found = "incomplete"
    /\ DOMAIN settings # DOMAIN default_settings
    /\ file.kind = "json" /\ Parse(file.body) = settings

\* C7: a completed update_setting(k, v) leaves the in-memory mapping equal
\* to the mapping at the start of the call (the reloaded one under
\* hard_fetch) with k set to v and nothing else changed, the file holds
\* that mapping, and a store constructed next on the file has v for k.
C7_UpdatePersists ==
    /\ [][(constructed /\ last'.op = "update_setting" /\ ~last'.raised)
            => LET F == IF file.kind = "json" THEN Parse(file.body) ELSE EmptyMap
                   D == default_settings
                   base == IF hard_fetch
                           THEN [k \in DOMAIN F \cup DOMAIN D |->
                                    IF k \in DOMAIN F THEN F[k] ELSE D[k]]
                           ELSE settings
               IN  /\ DOMAIN settings' = DOMAIN base \cup {last'.key}
                   /\ settings'[last'.key] = last'.val
                   /\ \A k \in DOMAIN base \ {last'.key} : settings'[k] = base[k]
                   /\ file'.kind = "json"
                   /\ Parse(file'.body) = settings']_vars
    /\ [][(last.op = "update_setting" /\ ~last.raised /\ last'.op = "init")
            => /\ ~last'.raised
               /\ last.key \in DOMAIN settings'
               /\ settings'[last.key] = last.val]_vars

\* update_setting has replaced the value of a key the mapping already had
\* by a value that is not the key's default.
C7_Witness ==
    /\ constructed
    /\ last.op = "update_setting" /\ ~last.raised
    /\ last.key \in DOMAIN default_settings
    /\ last.val # default_settings[last.key]
    /\ settings[last.key] = last.val

\* C8: after reset, whatever the mapping and the file held (reset does not
\* read the file, so no content makes it raise), both the in-memory
\* mapping and the file hold exactly the defaults.
C8_ResetRestoresDefaults ==
    last.op = "reset"
        => (/\ ~last.raised
               /\ settings = default_settings
               /\ file.kind = "json"
            /\ Parse(file.body) = default_settings)

\* reset has run on a file that held undecodable bytes.
C8_Witness ==
    /\ last.op = "reset"
    /\ last.found = "bytes"
    /\ settings = default_settings

\* C9: get_setting returns the in-memory value of the key when the mapping
\* has it and the caller's default (None when none is passed) otherwise;
\* an exception leaves it only out of the reload of hard_fetch, never for a
\* missing key; under LAZY it changes neither the mapping nor the file.
C9_GetSettingResult ==
    /\ [](last.op = "get_setting"
            => /\ ~last.raised =>
                    last.ret = IF last.key \in DOMAIN settings
                               THEN settings[last.key] ELSE last.val
               /\ last.raised => (hard_fetch /\ last.found = "bytes"))
    /\ [][(constructed /\ ~hard_fetch /\ last'.op = "get_setting")
            => (settings' = settings /\ file' = file)]_vars

\* get_setting of a key that is in neither the mapping nor the file has
\* returned the caller's fallback, under LAZY.
C9_Witness ==
    /\ constructed /\ ~hard_fetch
    /\ last.op = "get_setting" /\ ~last.raised
    /\ last.key \notin DOMAIN settings
    /\ last.val # None /\ last.ret = last.val

\* C10: under hard_fetch, the get_setting(k) that follows an external
\* overwrite of the file with a JSON object F returns F's value for every
\* key of F and the default for a default key missing from F.
C10_EagerGetSeesExternalWrite ==
    [][(/\ constructed /\ hard_fetch
        /\ last.op = "external" /\ file.kind = "json"
        /\ last'.op = "get_setting")
        => LET F == Parse(file.body)
               k == last'.key
           IN  /\ ~last'.raised
               /\ (k \in DOMAIN F => last'.ret = F[k])
               /\ (k \in DOMAIN default_settings \ DOMAIN F
                      => last'.ret = default_settings[k])]_vars

\* get_setting under hard_fetch has met an object an external writer left
\* without some default key, and has returned that object's value for a
\* default key, a value other than the default.
C10_Witness ==
    /\ constructed /\ hard_fetch
    /\ last.op = "get_setting" /\ ~last.raised
    /\ last.found = "incomplete"
    /\ last.key \in DOMAIN default_settings
    /\ last.ret # default_settings[last.key]

\* C11: without hard_fetch, get_setting and get_all_settings read nothing
\* and write nothing: whatever an external writer left in the file (other
\* content, or no file), they raise nothing, answer from the in-memory
\* mapping as it stands, and leave mapping and file as they were.
C11_LazyGettersUseMemoryOnly ==
    [][(constructed /\ ~hard_fetch /\ last'.op \in Getters)
        => /\ ~last'.raised
           /\ settings' = settings
           /\ file' = file
           /\ last'.op = "get_all_settings" => last'.ret = settings
           /\ last'.op = "get_setting" =>
                last'.ret = IF last'.key \in DOMAIN settings
                            THEN settings[last'.key] ELSE last'.val]_vars

\* A LAZY get_setting has answered from memory with a value the file does
\* not have: the file was deleted, or holds another value for the key.
C11_Witness ==
    /\ constructed /\ ~hard_fetch
    /\ last.op = "get_setting" /\ ~last.raised
    /\ last.key \in DOMAIN settings /\ last.ret = settings[last.key]
    /\ \/ file.kind = "absent"
       \/ /\ file.kind = "json"
          /\ last.key \in MemberKeys(file.body)
          /\ Parse(file.body)[last.key] # last.ret

\* C12: under hard_fetch, the update_setting(k, v) that follows an external
\* overwrite of the file with a JSON object F leaves in the file F, with
\* the default keys F lacks back-filled, and k set to v: the keys an
\* external writer edited keep the writer's values, not the store's.
C12_EagerUpdateKeepsExternalEdits ==
    [][(/\ constructed /\ hard_fetch
        /\ last.op = "external" /\ file.kind = "json"
        /\ last'.op = "update_setting")
        => LET F == Parse(file.body)
               D == default_settings
               merged == [k \in DOMAIN F \cup DOMAIN D |->
                             IF k \in DOMAIN F THEN F[k] ELSE D[k]]
           IN  /\ ~last'.raised
               /\ file'.kind = "json"
               /\ Parse(file'.body) =
                      [k \in DOMAIN merged \cup {last'.key} |->
                          IF k = last'.key THEN last'.val ELSE merged[k]]]_vars

\* An update_setting under hard_fetch has met an object that lacked the
\* default key it sets and held a key outside the defaults; that other key
\* is in the mapping it saved.
C12_Witness ==
    /\ constructed /\ hard_fetch
    /\ last.op = "update_setting" /\ ~last.raised
    /\ last.found = "incomplete"
    /\ \E k \in DOMAIN settings \ (DOMAIN default_settings \cup {last.key}) :
           /\ file.kind = "json"
           /\ k \in MemberKeys(file.body)
           /\ Parse(file.body)[k] = settings[k]

\* C13: a store built on the file a construction has just left, with the
\* same defaults and nothing in between, holds the mapping the first store
\* holds, so that its get_all_settings under LAZY returns the same; its
\* load saves nothing and the file content stays as it was.
C13_RepairIdempotent ==
    /\ [][(last.op = "init" /\ ~last.raised /\ last'.op = "init")
            => /\ ~last'.raised
               /\ LoadWrites(file, default_settings) = 0
               /\ settings' = settings
               /\ file' = file]_vars
    /\ [][(/\ last.op = "init" /\ ~last.raised /\ last.val = 1
            /\ ~hard_fetch /\ last'.op = "get_all_settings")
            => (~last'.raised /\ last'.ret = settings /\ file' = file)]_vars

\* A second LAZY store has been built straight after a first one, on a file
\* that holds a key outside the defaults beside the back-filled defaults.
C13_Witness ==
    /\ constructed /\ ~hard_fetch
    /\ last.op = "init" /\ ~last.raised /\ last.val = 1
    /\ default_settings # EmptyMap
    /\ DOMAIN settings # DOMAIN default_settings
    /\ file = SaveSettings(settings)

\* C14 as stated: update_setting with a value that is not JSON-serializable
\* raises, and the file it leaves still parses as JSON holding every key
\* the store had: no key dropped, no truncated or partial text on disk.
\* (The file the call found was readable: not undecodable bytes.)
C14_UnserializableLeavesFileIntact ==
    (/\ constructed
     /\ last.op = "update_setting" /\ last.val = Unserializable
     /\ last.found # "bytes")
        => /\ last.raised
           /\ file.kind = "json"
           /\ DOMAIN default_settings \subseteq MemberKeys(file.body)

\* C15 as stated: whatever the file holds that decodes as text (nothing,
\* text that is not JSON, an object lacking default keys, JSON that is no
\* object), construction, get_setting, get_all_settings and update_setting
\* with a serializable value raise nothing.
C15_NoRaiseOnAnyContent ==
    (/\ last.op \in {"init", "get_setting", "get_all_settings", "update_setting"}
     /\ last.found # "bytes")
        => ~last.raised

\* C16: an operation the filesystem fails, in its load or in its save,
\* raises to the caller and returns nothing; the failure is not taken for a
\* corrupt file: the file stays as it was, or is left cut short by the
\* write that failed, and is not replaced by the defaults; a failed load
\* changes neither the in-memory mapping nor whether a store exists.
C16_FilesystemFailureRaised ==
    [][last'.found \in Faults
        => /\ last'.raised
           /\ last'.ret = None
           /\ file' = file \/ file' = BadText
           /\ last'.found = "read fails" => file' = file
           /\ last'.op \in {"init", "get_setting", "get_all_settings"}
                => (settings' = settings /\ constructed' = constructed)]_vars

\* A get under hard_fetch has failed on a write while the file held text
\* that is not JSON, and the file still holds no JSON.
C16_Witness ==
    /\ constructed /\ hard_fetch
    /\ last.op \in Getters /\ last.raised
    /\ last.found = "write fails"
    /\ file.kind = "text"
    /\ default_settings # EmptyMap

\* C17 as stated: after a caller has changed the mapping get_all_settings
\* returned, the store answers and saves as if the mapping had not been
\* touched: the next get_setting returns the untouched value of the key (or
\* the fallback), the next update_setting writes the untouched mapping with
\* its key set.
C17_ReturnedMappingIsACopy ==
    [][(last.op = "caller_mutation" /\ last'.op \in {"get_setting", "update_setting"})
        => LET untouched == last.ret
               k == last'.key
           IN  /\ ~last'.raised
               /\ last'.op = "get_setting" =>
                    last'.ret = IF k \in DOMAIN untouched THEN untouched[k]
                                ELSE last'.val
               /\ last'.op = "update_setting" =>
                    /\ file'.kind = "json"
                    /\ Parse(file'.body) =
                           [j \in DOMAIN untouched \cup {k} |->
                               IF j = k THEN last'.val ELSE untouched[j]]]_vars

\* C18: no operation of the store changes default_settings: through every
\* construction (file missing, corrupt or valid), get_setting,
\* get_all_settings, update_setting and reset it keeps the keys and values
\* it was given, so that what reset restores is the mapping supplied.
C18_DefaultsNeverChange ==
    /\ [][default_settings' = default_settings]_vars
    /\ [][last'.op = "reset" => settings' = default_settings]_vars

\* update_setting has given a default key another value in a mapping that
\* the reload of hard_fetch had just copied from the defaults, the file
\* being missing; the defaults still hold the default.
C18_Witness ==
    /\ constructed /\ hard_fetch
    /\ last.op = "update_setting" /\ ~last.raised
    /\ last.found = "absent"
    /\ last.key \in DOMAIN default_settings
    /\ settings[last.key] = last.val
    /\ default_settings[last.key] # last.val

\* C19: when the update_setting calls of two stores on one file have both
\* completed, in whatever order their loads and saves ran, the file holds
\* exactly the whole in-memory mapping of the store that saved last.
C19_LastSaverWins ==
    (\A i \in Instances : instances[i].pc = "done")
        => /\ last.op = "update_save"
           /\ file.kind = "json"
           /\ Parse(file.body) = instances[last.instance].settings
           /\ Len(file.body) = Cardinality(DOMAIN instances[last.instance].settings)

\* Both calls have completed and the update of the store that saved first
\* is lost: the file does not hold its value for its key, though both
\* stores reload before they update (hard_fetch) and set different keys.
C19_Witness ==
    /\ \A i \in Instances : instances[i].pc = "done" /\ instances[i].hard_fetch
    /\ instances[1].key # instances[2].key
    /\ \E i \in Instances \ {last.instance} :
           LET onDisk == Parse(file.body)
           IN  \/ instances[i].key \notin DOMAIN onDisk
               \/ onDisk[instances[i].key] # instances[i].value

\* C20: in one call of a wrapper made by retry_support(num=n), n >= 0, the
\* function is invoked at most n + 1 times; the invocation that returns
\* ends the call with its value, and the function is invoked only while
\* the call is under way, never after it has returned or raised.
C20_AtMostNumPlusOneInvocations ==
    /\ [](calls <= num + 1)
    /\ [][(last'.op = "invoke" /\ last'.outcome = "returns")
            => (state' = "returned" /\ rv' = last'.value)]_vars
    /\ [][calls' = calls + 1 => (state = "running" /\ calls = retries)]_vars
    /\ [](state \in {"returned", "raised"} => calls >= 1)

\* A call has returned the value of its last permitted invocation, the
\* num invocations before it having raised.
C20_Witness ==
    /\ state = "returned"
    /\ num > 1
    /\ calls = num + 1 /\ retries = num
    /\ rv \in Vals
    /\ last.op = "invoke" /\ last.outcome = "returns"

\* C21: when the invocation made after num retries raises an Exception that
\* is not ignored, the wrapper calls onFailure once, with that exception and
\* no other, and returns, if an onFailure was given; without one that same
\* exception leaves the wrapper; either way the call is over and the
\* function is not invoked again in it.
C21_ExhaustionHandsOverLastException ==
    /\ [][(last'.op = "invoke" /\ last'.outcome = "fails"
             /\ calls' = num + 1)
            => /\ state' # "running"
               /\ IF onFailure
                  THEN /\ state' = "returned" /\ rv' = None
                       /\ handed' = <<calls'>> /\ reraised' = 0
                  ELSE /\ state' = "raised"
                       /\ handed' = <<>> /\ reraised' = calls']_vars
    /\ [](Len(handed) <= 1)
    /\ [](handed # <<>> => (state = "returned" /\ handed = <<calls>>))
    /\ [][(state # "running" /\ calls' # calls) => last'.op = "call"]_vars

\* A call with two retries and an onFailure is over: the third invocation
\* raised and onFailure was called with its exception.
C21_Witness ==
    /\ num = 2 /\ onFailure
    /\ state = "returned" /\ calls = 3
    /\ last.op = "invoke" /\ last.outcome = "fails"
    /\ handed = <<3>> /\ reraised = 0

\* The operations of a Signal that call the connected callback.
Emits == {"emit", "emit_async"}

\* C22: a Signal holds one callback at most: connect puts its callback in
\* the place of the one connected before, disconnect leaves none, no other
\* operation changes it; an emit calls the connected callback once and no
\* other function, and calls nothing when none is connected.
C22_OnlyLatestCallbackInvoked ==
    /\ [][last'.op = "connect"
            => (callback' = last'.cb /\ replaced' = callback)]_vars
    /\ [][last'.op = "disconnect" => callback' = NoCallback]_vars
    /\ [][last'.op \in Emits \cup {"get_returned_value"}
            => callback' = callback]_vars
    /\ [][last'.op \in Emits
            => IF callback = NoCallback
               THEN invoked' = <<>>
               ELSE /\ Len(invoked') = 1
                    /\ invoked'[1].cb = callback]_vars
    /\ [](\A i \in DOMAIN invoked :
            /\ invoked[i].cb = callback
            /\ replaced # callback => invoked[i].cb # replaced)

\* g was connected in the place of f and an emit has called g.
C22_Witness ==
    /\ last.op = "emit"
    /\ replaced = 1 /\ callback = 2
    /\ Len(invoked) = 1 /\ invoked[1].cb = 2

\* C23: emit_async awaits the callback with connect's positional arguments
\* followed by its own, and with connect's keywords overridden by its own.
C23_EmitAsyncCombinesArguments ==
    [][(last'.op = "emit_async" /\ callback # NoCallback)
        => invoked' = <<Invocation(callback, cb_args \o last'.args,
                                   MergeKwargs(cb_kwargs, last'.kwargs),
                                   FALSE)>>]_vars

\* C24: connect sets what get_returned_value returns to its
\* defaultReturnValue; get_returned_value returns the kept value and leaves
\* it; the value stays through disconnect, through an emit with nothing
\* connected, through an emit whose callback raised and through every emit
\* of a threaded Signal; an emit of a Signal that is not threaded whose
\* callback returned puts that value in its place.
C24_ReturnedValueFollowsLatestEmit ==
    /\ [][last'.op = "connect" => returnedValue_from_cb' = last'.value]_vars
    /\ [][last'.op = "get_returned_value"
            => /\ last'.value = returnedValue_from_cb
               /\ returnedValue_from_cb' = returnedValue_from_cb]_vars
    /\ [][(\/ last'.op = "disconnect"
            \/ /\ last'.op = "emit"
               /\ (callback = NoCallback \/ threaded \/ last'.raised))
            => returnedValue_from_cb' = returnedValue_from_cb]_vars
    /\ [][(/\ last'.op = "emit" /\ callback # NoCallback
            /\ ~threaded /\ ~last'.raised)
            => /\ returnedValue_from_cb' = last'.value
               /\ last'.value \in Vals]_vars

\* A Signal that is not threaded has emitted: the
\* callback returned 2 in the latest emit, and 2 is what the Signal keeps.
C24_Witness ==
    /\ ~threaded
    /\ last.op = "emit" /\ last.cb # NoCallback /\ ~last.raised
    /\ last.value = 2
    /\ connected_function_ran
    /\ returnedValue_from_cb = 2

\* The hook of each operation of the collection that has one.
HookOf ==
    [op \in {"delete_data_of_dataID", "delete_data_of_dataType",
             "update_data_of_dataID", "update_data_of_dataType"} |->
        CASE op = "delete_data_of_dataID" -> "_delete_dataID_fctn"
          [] op = "delete_data_of_dataType" -> "_delete_dataType_fctn"
          [] op = "update_data_of_dataID" -> "_update_dataID_fctn"
          [] op = "update_data_of_dataType" -> "_update_dataType_fctn"]

\* C25: in delete_data_of_dataID, delete_data_of_dataType,
\* update_data_of_dataID and update_data_of_dataType every call of the
\* operation's hook is the last thing the operation does, and a change of
\* the collection came before it.
C25_HookRunsLast ==
    [][last'.op \in DOMAIN HookOf
        => \A i \in DOMAIN trace' :
              (trace'[i].kind = "hook" /\ trace'[i].name = HookOf[last'.op])
                  => /\ i = Len(trace')
                     /\ \E j \in 1..(i - 1) : trace'[j].kind = "change"]_vars

\* C26: after copy_data_of_dataID(old, new, deleteOldID) on a collection
\* that holds old, new has the data old had, and old is gone exactly when
\* deleteOldID was set and has its data as before otherwise, old and new
\* being any two dataIDs or the same one.
C26_CopyGivesNewTheDataOfOld ==
    [][(last'.op = "copy_data_of_dataID"
            /\ last'.dataID \in DOMAIN collectionData)
        => LET old == last'.dataID
               new == last'.arg
               deleteOldID == last'.dataValue
           IN  /\ get_data_of_dataID(collectionData', new)
                      = collectionData[old]
               /\ old \notin DOMAIN collectionData' <=> deleteOldID
               /\ ~deleteOldID
                      => collectionData'[old] = collectionData[old]]_vars

\* C27: under LAZY an update_setting that raised while saving leaves the
\* mapping in memory as it was before the call; a get_setting of the same
\* key that follows does not return the rejected value, and an
\* update_setting of another key with a serializable value that follows
\* does not raise.
C27_FailedUpdateLeavesMemory ==
    /\ [][(~hard_fetch /\ last'.op = "update_setting" /\ last'.raised)
            => settings' = settings]_vars
    /\ [][(/\ ~hard_fetch
            /\ last.op = "update_setting" /\ last.raised
            /\ last'.op = "get_setting" /\ last'.key = last.key)
            => last'.ret # last.val]_vars
    /\ [][(/\ ~hard_fetch
            /\ last.op = "update_setting" /\ last.raised
            /\ last'.op = "update_setting" /\ last'.key # last.key
            /\ last'.val \in Vals)
            => ~last'.raised]_vars

\* C28: a load by one store (its construction, or the reload of an
\* update_setting under EAGER) taken while the save of the other store is
\* in progress finds the whole JSON text of a save in the file, never a
\* file that is empty or partly written, which it would take for corrupt
\* and replace by the defaults.
C28_LoadNeverSeesSaveInProgress ==
    [][(/\ \/ last'.op = "init"
            \/ /\ last'.op = "update_load"
               /\ instances[last'.instance].hard_fetch
        /\ \E j \in Instances \ {last'.instance} : instances[j].pc = "open")
        => file.kind = "json"]_vars

====
